---- MODULE Spec2Model ----
(***************************************************************************)
(* Model of train.py (lymphocytosis diagnosis): the epoch driver, the      *)
(* gradient accumulation scheduler, the learning-rate controller and the   *)
(* checkpoint/resume state machine of main().                              *)
(*                                                                         *)
(* Losses, learning rates and thresholds are exact rationals <<num, den>>  *)
(* in lowest terms with den > 0 (Python floats, rounding ignored).         *)
(***************************************************************************)
EXTENDS Integers, Sequences, FiniteSets, TLC

\* ------------------------------------------------------------------------
\* Bounds of the model
MaxTrain    == 3    \* largest training split (patients)
MaxBatch    == 3    \* largest subj_batch_size
MaxEvery    == 2    \* largest checkpoint_every
MaxIters    == 4    \* largest n_iters
MaxRestarts == 2    \* interruptions followed by a restart of main()
LongIters   == 12   \* n_iters of the runs that outgrow the plateau window
MaxDecays   == 5    \* plateau decays followed within one run of main()
MaxScore    == 1    \* largest absolute value of a classifier score
MaxEpochs   == 16   \* epochs followed within one lineage of runs

\* ------------------------------------------------------------------------
\* Program constants
SICK_TARGET    == 1
HEALTHY_TARGET == 1 - SICK_TARGET
EPOCHS_LR_CRITERION == 10

\* ------------------------------------------------------------------------
\* Rational arithmetic (what float arithmetic computes, without rounding)
RECURSIVE GCD(_, _)
GCD(a, b) == IF b = 0 THEN a ELSE GCD(b, a % b)

Abs(x) == IF x < 0 THEN -x ELSE x

Norm(r) ==
    LET g == GCD(Abs(r[1]), r[2])
    IN  <<r[1] \div g, r[2] \div g>>

RatAdd(a, b) == Norm(<<a[1] * b[2] + b[1] * a[2], a[2] * b[2]>>)
RatSub(a, b) == Norm(<<a[1] * b[2] - b[1] * a[2], a[2] * b[2]>>)
RatMul(a, b) == Norm(<<a[1] * b[1], a[2] * b[2]>>)
RatDivInt(a, n) == Norm(<<a[1], a[2] * n>>)
RatAbs(a) == <<Abs(a[1]), a[2]>>
RatLess(a, b) == a[1] * b[2] < b[1] * a[2]
Zero == <<0, 1>>

REDUCE_LR_CRITERION == <<1, 100>>

\* ------------------------------------------------------------------------
Labels        == {HEALTHY_TARGET, SICK_TARGET}
Schemes       == {"step", "plateau"}

VARIABLES
    options,                \* the configuration (options.training.*)
    outputs,                \* what the model and the logging sink can
                            \* answer: the totals closure() returns on each
                            \* split, the labels and scores of the patients,
                            \* whether the sink fails, and how often the
                            \* process gets interrupted
    train_dataset,          \* label -> number of patients of the train split
    val_dataset,            \* number of patients of the val split
    test_dataset,           \* number of patients of the test split
    disk,                   \* output_dir: system_state.pkl, best_model/, weights
    pc,                     \* position of main()
    resuming,               \* line 75
    iter_mark, tr_epoch, train_val_losses,
    current_lr, reduce_lr_criterion,
    model,                  \* the Model object: parameters, gradients, optimiser
    accumulated_examples, batch_idx, pending,
    total_train_loss, total_val_loss, total_test_loss,
    itemized,               \* total_<split>_<imgs|attrs|recon|sparse>_loss
    restarts,               \* number of interruptions so far
    run,                    \* history of the current run of main()
    sched,                  \* history of the gradient accumulation scheduler
    lineage,                \* history across runs of main()
    data_point,             \* the patient handed to closure()
    result_dict,            \* the output of the model on that patient
    closure_args,           \* the arguments test and ae_only of closure()
    loss_pred_dict          \* the dictionary closure() returned

vars == <<options, outputs, train_dataset, val_dataset, test_dataset, disk, pc, resuming,
          iter_mark, tr_epoch, train_val_losses, current_lr,
          reduce_lr_criterion, model, accumulated_examples, batch_idx, pending,
          total_train_loss, total_val_loss, total_test_loss, itemized,
          restarts, run, sched, lineage, data_point, result_dict, closure_args,
          loss_pred_dict>>

evaluation == <<data_point, result_dict, closure_args, loss_pred_dict>>

config == <<options, outputs, train_dataset, val_dataset, test_dataset>>

\* ------------------------------------------------------------------------
\* Files of the output directory
NoFile == [exists |-> FALSE, tr_epoch |-> 0, iter_mark |-> 0,
           train_val_losses |-> <<>>]
NoWeights == [exists |-> FALSE, params |-> 0]

\* Faulty variant: the snapshot is built before tr_epoch is incremented
SystemState_BeforeIncrement(epoch, iters, losses) ==
    [exists |-> TRUE, tr_epoch |-> epoch - 1, iter_mark |-> iters,
     train_val_losses |-> losses]

\* system_state = {'tr_epoch': ..., 'iter_mark': ..., 'train_val_losses': ...}
SystemState(epoch, iters, losses) ==
    [exists |-> TRUE, tr_epoch |-> epoch, iter_mark |-> iters,
     train_val_losses |-> losses]

\* model.checkpoint(best): the weights go to best_model/ or to output_dir
checkpoint(d, m, best) ==
    IF best
    THEN [d EXCEPT !.best_weights = [exists |-> TRUE, params |-> m.params]]
    ELSE [d EXCEPT !.weights = [exists |-> TRUE, params |-> m.params]]

\* Faulty variant: the best state is dumped to system_state.pkl as well
WriteBest_AlsoLatest(d, ss, m) ==
    [checkpoint(d, m, TRUE) EXCEPT !.best_system_state = ss,
                                   !.system_state = ss]

\* lines 659-666: model.checkpoint(best=True), pickle.dump to best_model/
WriteBest(d, ss, m) ==
    [checkpoint(d, m, TRUE) EXCEPT !.best_system_state = ss]

\* lines 671-678: model.checkpoint(), pickle.dump to system_state.pkl
WriteLatest(d, ss, m) ==
    [checkpoint(d, m, FALSE) EXCEPT !.system_state = ss]

\* ------------------------------------------------------------------------
\* The Model object (model.py): parameter version = optimiser steps applied,
\* grad = what param.grad holds
NoGrad == [sum_of |-> 0, div |-> 1, stepped |-> FALSE]
NewModel == [params |-> 0, grad |-> NoGrad, reduce_lr |-> 0]

reset_gradients(m) == [m EXCEPT !.grad = NoGrad]
backward(m) == [m EXCEPT !.grad.sum_of = @ + 1]
take_optimiser_step(m) == [m EXCEPT !.params = @ + 1, !.grad.stepped = TRUE]
reduce_lr(m) == [m EXCEPT !.reduce_lr = @ + 1]
load_checkpoint(m, d) == [m EXCEPT !.params = d.weights.params]

\* ------------------------------------------------------------------------
\* Histories (not program state)
NewRun == [dir_existed |-> FALSE, restored |-> NoFile, trained |-> 0,
           epochs |-> 0, wrote_best |-> FALSE, wrote_latest |-> FALSE,
           best_epochs |-> {}, raised |-> ""]
NoStep == [div |-> 0, patients |-> 0, grads |-> 0]
NoCall == [split |-> "none", test |-> FALSE, ae_only |-> FALSE]
NewSched == [steps |-> 0, losses |-> 0, skipped |-> 0, since_reset |-> 0,
             last |-> NoStep, evaluated |-> 0, call |-> NoCall,
             summed |-> <<>>]

\* ------------------------------------------------------------------------
\* Startup, lines 39-40 and 73-102
\* Faulty variant: the existence of system_state.pkl is not tested
Resuming_DirOnly(d) == d.dir

Resuming(d) == d.dir /\ d.system_state.exists

\* Faulty variant: a fresh run starts with the epoch counter at one
FreshState_EpochOne ==
    [iter_mark |-> 0, tr_epoch |-> 1, train_val_losses |-> <<>>]

FreshState == [iter_mark |-> 0, tr_epoch |-> 0, train_val_losses |-> <<>>]

\* Faulty variant: the restored epoch counter is one behind
LoadedState_EpochBehind(system_state) ==
    [iter_mark |-> system_state.iter_mark,
     tr_epoch |-> IF system_state.tr_epoch > 0
                  THEN system_state.tr_epoch - 1 ELSE 0,
     train_val_losses |-> system_state.train_val_losses]

LoadedState(system_state) ==
    [iter_mark |-> system_state.iter_mark,
     tr_epoch |-> system_state.tr_epoch,
     train_val_losses |-> system_state.train_val_losses]

NoItems == [imgs |-> Zero, attrs |-> Zero, recon |-> Zero, sparse |-> Zero]
NoItemized == [train |-> NoItems, val |-> NoItems, test |-> NoItems]

Volatile ==
    /\ itemized' = NoItemized
    /\ accumulated_examples' = 0
    /\ batch_idx' = 0
    /\ pending' = [l \in Labels |-> 0]
    /\ total_train_loss' = Zero
    /\ total_val_loss' = Zero
    /\ total_test_loss' = Zero

Startup ==
    /\ pc = "start"
    /\ LET r  == Resuming(disk)
           st == IF r THEN LoadedState(disk.system_state) ELSE FreshState
       IN  /\ resuming' = r
           /\ iter_mark' = st.iter_mark
           /\ tr_epoch' = st.tr_epoch
           /\ train_val_losses' = st.train_val_losses
           /\ model' = IF r THEN load_checkpoint(NewModel, disk) ELSE NewModel
           /\ run' = [NewRun EXCEPT !.dir_existed = disk.dir,
                                     !.restored = disk.system_state]
           /\ lineage' = [lineage EXCEPT
                            !.lr = IF r THEN lineage.saved_lr ELSE options.lr,
                            !.crit = IF r THEN lineage.saved_crit
                                          ELSE REDUCE_LR_CRITERION]
    /\ disk' = [disk EXCEPT !.dir = TRUE]
    /\ current_lr' = options.lr
    /\ reduce_lr_criterion' = REDUCE_LR_CRITERION
    /\ sched' = NewSched
    /\ pc' = "while"
    /\ Volatile
    /\ UNCHANGED <<config, evaluation, restarts>>

\* ------------------------------------------------------------------------
\* closure(data_point, test, ae_only), lines 190-404.  A loss is kept as the
\* expression that computes it: the function, the score it is applied to,
\* the target, whether the target is expanded to the size of the score, and
\* the scale factors it was multiplied by.  A total is the set of the losses
\* that were added to the integer 0 of line 205.
Modes  == {"I", "A", "D", "G", "M", "T"}
Scores == (0 - MaxScore) .. MaxScore

Tensor(fn, input, target, expand) ==
    [fn |-> fn, input |-> input, target |-> target, expand |-> expand,
     scales |-> {}]

None == Tensor("None", "", "", FALSE)
NoKey == "(no key)"

Scaled(scale, loss) == [loss EXCEPT !.scales = @ \cup {scale}]

\* F.binary_cross_entropy_with_logits or F.cross_entropy, lines 169-176
loss_fn(input, target, expand) == Tensor("loss_fn", input, target, expand)

\* lines 179-186: the index of the smaller (label 0) or larger (label 1) of
\* [attr_score, img_score]; np.argmin and np.argmax return the first one
\* Faulty variant: equal scores select the image classifier
get_gate_target_TiesToImage(img_score, attr_score, target) ==
    IF target = 0
    THEN (IF img_score <= attr_score THEN 1 ELSE 0)
    ELSE (IF img_score >= attr_score THEN 1 ELSE 0)

get_gate_target(img_score, attr_score, target) ==
    IF target = 0
    THEN (IF img_score < attr_score THEN 1 ELSE 0)
    ELSE (IF img_score > attr_score THEN 1 ELSE 0)

\* Faulty variant: the M branch is preferred when both G and M are set
PrimaryBranch_MFirst(mode) ==
    IF "M" \in mode THEN "M" ELSE IF "G" \in mode THEN "G" ELSE "IAD"

\* lines 208, 219 and 230
PrimaryBranch(mode) ==
    IF "G" \in mode THEN "G" ELSE IF "M" \in mode THEN "M" ELSE "IAD"

\* lines 208-298
GatedLosses(mode, label, rd) ==
    LET healthy == label = 0
        target  == IF healthy THEN "healthy_target" ELSE "sick_target"
        nll ==
            IF PrimaryBranch(mode) = "G"
            THEN IF healthy
                 THEN Scaled("scale_0", Tensor("-log", "1 - p_score", "", FALSE))
                 ELSE Scaled("scale_1", Tensor("-log", "p_score", "", FALSE))
            ELSE IF healthy
                 THEN Scaled("scale_0", Tensor("-log", "pred_prob",
                                               "NOISY_NEG_TARGET", FALSE))
                 ELSE Scaled("scale_1", Tensor("-log", "pred_prob",
                                               "NOISY_POS_TARGET", FALSE))
        gate_target ==
            IF get_gate_target(rd.agg_img_score, rd.attr_score, label) = 0
            THEN "healthy_target" ELSE "sick_target"
        gate == Tensor("binary_cross_entropy", "w_img_score", gate_target,
                       FALSE)
    IN  [total       |-> IF "T" \in mode THEN {nll, gate} ELSE {nll},
         imgs        |-> loss_fn("agg_img_score", target, healthy),
         attrs       |-> loss_fn("attr_score", target, healthy),
         recon       |-> None,
         sparse      |-> None,
         img_inputs  |-> None,
         img_recons  |-> None,
         gate_target |-> IF "T" \in mode THEN gate_target ELSE NoKey]

\* lines 301-338
ImageLoss(mode, label, test) ==
    IF "I" \in mode
    THEN Scaled("scale_imgs",
             IF label = 0
             THEN Scaled("scale_0",
                      IF ~test
                      THEN loss_fn("agg_img_score", "healthy_target", TRUE)
                      ELSE loss_fn("agg_img_score", "healthy_target", FALSE))
             ELSE Scaled("scale_1",
                      loss_fn("agg_img_score", "sick_target", FALSE)))
    ELSE None

\* lines 341-363
AttributeLoss(mode, label) ==
    IF "A" \in mode
    THEN Scaled("scale_attrs",
             IF label = 0
             THEN Scaled("scale_0",
                      loss_fn("attr_score", "healthy_target", FALSE))
             ELSE Scaled("scale_1",
                      loss_fn("attr_score", "sick_target", FALSE)))
    ELSE None

\* Faulty variant: the reconstruction outputs are read whatever the mode
Reconstruction_Always(mode, key) == Tensor("result_dict", key, "", FALSE)

\* lines 366-381: result_dict[key], or None without mode D
Reconstruction(mode, key) ==
    IF "D" \in mode THEN Tensor("result_dict", key, "", FALSE) ELSE None

\* lines 301-404
AdditiveLosses(mode, label, test, ae_only) ==
    LET loss_imgs   == ImageLoss(mode, label, test)
        loss_attrs  == AttributeLoss(mode, label)
        loss_recon  == Reconstruction(mode, "loss_recon")
        loss_sparse == Reconstruction(mode, "loss_sparse")
        loss1 == IF "I" \in mode /\ ~ae_only THEN {loss_imgs} ELSE {}
        loss2 == IF "A" \in mode /\ ~ae_only
                 THEN loss1 \cup {loss_attrs} ELSE loss1
        loss3 == IF "D" \in mode
                 THEN loss2 \cup {Scaled("scale_recon", loss_recon),
                                  Scaled("scale_sparse", loss_sparse)}
                 ELSE loss2
    IN  [total       |-> loss3,
         imgs        |-> loss_imgs,
         attrs       |-> loss_attrs,
         recon       |-> IF "D" \in mode
                         THEN Scaled("scale_recon", loss_recon) ELSE loss_recon,
         sparse      |-> IF "D" \in mode
                         THEN Scaled("scale_sparse", loss_sparse)
                         ELSE loss_sparse,
         img_inputs  |-> Reconstruction(mode, "img_inputs"),
         img_recons  |-> Reconstruction(mode, "img_recons"),
         gate_target |-> NoKey]

closure(mode, dp, rd, test, ae_only) ==
    IF "G" \in mode \/ "M" \in mode
    THEN GatedLosses(mode, dp.label, rd)
    ELSE AdditiveLosses(mode, dp.label, test, ae_only)

\* lines 169-176: loss_fn is bound for these loss families only
LossKnown == options.loss \in {"bce", "nll"}

\* closure() reaches a call of loss_fn (lines 221, 309, 345)
UsesLossFn(mode) == mode \cap {"G", "M", "I", "A"} # {}

\* closure() raises NameError at its first call of loss_fn
Raises(mode) == ~LossKnown /\ UsesLossFn(mode)

\* lines 292-293 and 397-402: p_score and pred are keys of the dictionary
HasPred(mode) == "G" \in mode \/ "M" \in mode \/ LossKnown

\* How the evaluation of one patient ends: with the exception raised by
\* closure() (loss_fn unbound), by the read of a missing key (lines 455,
\* 565, 724), by .backward() or .item() of the integer 0 (lines 465, 477,
\* 569, 728), by the logging sink (line 499), or with "" when it completes
Outcome(mode, bundle, backprop, sink) ==
    IF Raises(mode) THEN "NameError"
    ELSE IF ~HasPred(mode) THEN "KeyError"
    ELSE IF backprop /\ bundle.total = {} THEN "AttributeError: backward"
    ELSE IF bundle.total = {} THEN "AttributeError: item"
    ELSE IF sink THEN "SinkError"
    ELSE ""

\* closure() returned its dictionary
Returned(o) == o # "NameError"
\* the patient went through lines 463-476
Accumulated(o) == o \in {"AttributeError: item", "SinkError", ""}
\* the losses of the patient were added to the epoch's sums
Summed(o) == o \in {"SinkError", ""}

\* lines 480-491: `if loss is not None: total += loss.item()`
AddItem(sum, loss, value) == IF loss # None THEN RatAdd(sum, value) ELSE sum

Aggregate(items, bundle, value) ==
    [imgs   |-> AddItem(items.imgs, bundle.imgs, value),
     attrs  |-> AddItem(items.attrs, bundle.attrs, value),
     recon  |-> AddItem(items.recon, bundle.recon, value),
     sparse |-> AddItem(items.sparse, bundle.sparse, value)]

\* What one patient adds to the five sums of its split
Losses(bundle, loss_total, value) ==
    [total  |-> loss_total,
     imgs   |-> IF bundle.imgs = None THEN Zero ELSE value,
     attrs  |-> IF bundle.attrs = None THEN Zero ELSE value,
     recon  |-> IF bundle.recon = None THEN Zero ELSE value,
     sparse |-> IF bundle.sparse = None THEN Zero ELSE value]

\* writer.add_scalar raises or not
SinkAnswers == IF outputs.sink_fails THEN BOOLEAN ELSE {FALSE}

NoPatient == [label |-> 0 - 1]
NoResult  == [agg_img_score |-> 0, attr_score |-> 0]
NoArgs    == [test |-> FALSE, ae_only |-> FALSE]
NoBundle  == [total |-> {}, imgs |-> None, attrs |-> None, recon |-> None,
              sparse |-> None, img_inputs |-> None, img_recons |-> None,
              gate_target |-> NoKey]

\* closure() has not been called
NotEvaluated ==
    /\ data_point = NoPatient
    /\ result_dict = NoResult
    /\ closure_args = NoArgs
    /\ loss_pred_dict = NoBundle

\* The process is interrupted between two epochs and main() is started again
Kill ==
    /\ pc = "while"
    /\ restarts < outputs.interruptions
    /\ restarts' = restarts + 1
    /\ pc' = "start"
    /\ resuming' = FALSE
    /\ iter_mark' = 0
    /\ tr_epoch' = 0
    /\ train_val_losses' = <<>>
    /\ current_lr' = options.lr
    /\ reduce_lr_criterion' = REDUCE_LR_CRITERION
    /\ model' = NewModel
    /\ run' = NewRun
    /\ sched' = NewSched
    /\ Volatile
    /\ data_point' = NoPatient
    /\ result_dict' = NoResult
    /\ closure_args' = NoArgs
    /\ loss_pred_dict' = NoBundle
    /\ UNCHANGED <<config, disk, lineage>>

\* ------------------------------------------------------------------------
\* The epoch loop, line 408, and the set-up of an epoch, lines 414-435
\* Faulty variant: one more epoch is entered when iter_mark equals n_iters
LoopCondition_Inclusive ==
    ~options.skip_train /\ iter_mark <= options.n_iters

\* Faulty variant: skip_train is not looked at
LoopCondition_IgnoreSkip == iter_mark < options.n_iters

LoopCondition == ~options.skip_train /\ iter_mark < options.n_iters

Size(ds) == ds[HEALTHY_TARGET] + ds[SICK_TARGET]

EnterEpoch ==
    /\ pc = "while"
    /\ LoopCondition
    /\ tr_epoch < MaxEpochs
    /\ pc' = "train"
    /\ total_train_loss' = Zero
    /\ total_val_loss' = Zero
    /\ itemized' = [itemized EXCEPT !.train = NoItems, !.val = NoItems]
    /\ accumulated_examples' = 0
    /\ batch_idx' = 0
    /\ pending' = train_dataset
    /\ sched' = [sched EXCEPT !.steps = 0, !.losses = 0, !.skipped = 0,
                              !.evaluated = 0, !.summed = <<>>]
    /\ run' = [run EXCEPT !.wrote_best = FALSE, !.wrote_latest = FALSE]
    /\ UNCHANGED <<config, evaluation, disk, resuming, iter_mark, tr_epoch,
                   train_val_losses, current_lr, reduce_lr_criterion, model,
                   total_test_loss, restarts, lineage>>

\* ------------------------------------------------------------------------
\* One iteration of the training loop, lines 436-506
\* Faulty variant: sick patients are excluded in every epoch
CurriculumSkip_Forever(label, epoch) ==
    label = SICK_TARGET

\* Faulty variant: the epoch neg_train_until is still a curriculum epoch
CurriculumSkip_Inclusive(label, epoch) ==
    label = SICK_TARGET /\ epoch <= options.neg_train_until

CurriculumSkip(label, epoch) ==
    label = SICK_TARGET /\ epoch < options.neg_train_until

AeOnly(epoch) == ~(epoch >= options.autoencoder_only_epochs)

\* Faulty variant: the step is taken one patient after the batch is full
StepDue_OneLate(acc, idx) ==
    acc = options.subj_batch_size + 1 \/ idx + 1 = Size(train_dataset)

\* Faulty variant: no flush at the last patient of the split
StepDue_NoFlush(acc, idx) == acc = options.subj_batch_size

StepDue(acc, idx) ==
    acc = options.subj_batch_size \/ idx + 1 = Size(train_dataset)

\* Faulty variant: the gradient is always divided by subj_batch_size
AverageGradients_ByBatchSize(m, acc) ==
    IF m.grad.sum_of > 0
    THEN [m EXCEPT !.grad.div = @ * options.subj_batch_size] ELSE m

\* lines 470-473: param.grad *= 1. / accumulated_examples
AverageGradients(m, acc) ==
    IF m.grad.sum_of > 0 THEN [m EXCEPT !.grad.div = @ * acc] ELSE m

\* Faulty variant: the counter is tested before its increment
StepDecayDue_BeforeIncrement(iters) ==
    options.lr_decay_scheme = "step" /\ iters - 1 \in options.lr_decay_steps

\* lines 504-506, iters being iter_mark after line 502
StepDecayDue(iters) ==
    options.lr_decay_scheme = "step" /\ iters \in options.lr_decay_steps

TrainPatient ==
    /\ pc = "train"
    /\ run.raised = ""
    /\ \E label \in Labels, loss_total \in outputs.train,
          img_score \in outputs.scores, attr_score \in outputs.scores,
          item \in outputs.item, sink \in SinkAnswers :
        /\ pending[label] > 0
        /\ pending' = [pending EXCEPT ![label] = @ - 1]
        /\ batch_idx' = batch_idx + 1
        /\ data_point' = [label |-> label]
        /\ LET reset == accumulated_examples = 0
               m0 == IF reset THEN reset_gradients(model) ELSE model
               s0 == IF reset THEN [sched EXCEPT !.since_reset = 0] ELSE sched
           IN  IF CurriculumSkip(label, tr_epoch)
               THEN /\ model' = m0
                    /\ sched' = [s0 EXCEPT !.skipped = @ + 1]
                    /\ UNCHANGED <<accumulated_examples, total_train_loss,
                                   itemized, iter_mark, current_lr, lineage,
                                   run, result_dict, closure_args,
                                   loss_pred_dict>>
               ELSE LET ae_only == AeOnly(tr_epoch)
                        rd  == [agg_img_score |-> img_score,
                                attr_score |-> attr_score]
                        bundle == loss_pred_dict'
                        o   == Outcome(options.system_mode, bundle, ~ae_only,
                                       options.do_logging /\ sink)
                        m1  == IF ~ae_only /\ Accumulated(o)
                               THEN backward(m0) ELSE m0
                        acc == IF Accumulated(o)
                               THEN accumulated_examples + 1
                               ELSE accumulated_examples
                        due == Accumulated(o) /\ StepDue(acc, batch_idx)
                        m2  == IF due
                               THEN take_optimiser_step(AverageGradients(m1, acc))
                               ELSE m1
                        s1  == [s0 EXCEPT
                                  !.since_reset =
                                      IF Accumulated(o) THEN @ + 1 ELSE @,
                                  !.losses = IF Returned(o) THEN @ + 1 ELSE @,
                                  !.summed =
                                      IF Summed(o)
                                      THEN Append(@, Losses(bundle, loss_total,
                                                            item))
                                      ELSE @,
                                  !.call = [split |-> "train",
                                            test |-> FALSE,
                                            ae_only |-> ae_only]]
                        s2  == IF due
                               THEN [s1 EXCEPT
                                       !.steps = @ + 1,
                                       !.last = [div |-> acc,
                                                 patients |-> s1.since_reset,
                                                 grads |-> m1.grad.sum_of]]
                               ELSE s1
                        dec == o = "" /\ StepDecayDue(iter_mark + 1)
                    IN  /\ result_dict' = rd
                        /\ closure_args' = [test |-> FALSE,
                                            ae_only |-> ae_only]
                        /\ loss_pred_dict' =
                               IF Raises(options.system_mode)
                               THEN loss_pred_dict
                               ELSE closure(options.system_mode, data_point',
                                            rd, FALSE, ae_only)
                        /\ accumulated_examples' = IF due THEN 0 ELSE acc
                        /\ total_train_loss' =
                               IF Summed(o)
                               THEN RatAdd(total_train_loss, loss_total)
                               ELSE total_train_loss
                        /\ itemized' =
                               IF Summed(o)
                               THEN [itemized EXCEPT
                                       !.train = Aggregate(@, bundle, item)]
                               ELSE itemized
                        /\ iter_mark' = IF o = "" THEN iter_mark + 1
                                                  ELSE iter_mark
                        /\ current_lr' = IF dec
                                         THEN RatMul(current_lr, options.lr_decay)
                                         ELSE current_lr
                        /\ model' = IF dec THEN reduce_lr(m2) ELSE m2
                        /\ sched' = s2
                        /\ run' = [run EXCEPT !.raised = o]
                        /\ lineage' = IF dec
                                      THEN [lineage EXCEPT
                                              !.lr = RatMul(@, options.lr_decay)]
                                      ELSE lineage
    /\ UNCHANGED <<config, disk, pc, resuming, tr_epoch, train_val_losses,
                   reduce_lr_criterion, total_val_loss, total_test_loss,
                   restarts>>

\* ------------------------------------------------------------------------
\* End of the training loop: the epoch's mean and the plateau policy,
\* lines 509-525
RECURSIVE SumCol(_, _)
SumCol(losses, col) ==
    IF losses = <<>> THEN Zero
    ELSE RatAdd(Head(losses)[col], SumCol(Tail(losses), col))

\* np.mean(np.array(losses)[:, col])
MeanCol(losses, col) == RatDivInt(SumCol(losses, col), Len(losses))

\* np.array(train_val_losses)[-_epochs_lr_criterion:]
LastK(losses, k) ==
    IF Len(losses) <= k THEN losses
    ELSE SubSeq(losses, Len(losses) - k + 1, Len(losses))

\* Faulty variant: the reference is always the mean of the whole history
PlateauReference_AllHistory(losses) == MeanCol(losses, 1)

PlateauReference(losses) ==
    IF Len(losses) < EPOCHS_LR_CRITERION
    THEN MeanCol(losses, 1)
    ELSE MeanCol(LastK(losses, EPOCHS_LR_CRITERION), 1)

PlateauFires(epoch, losses, train_loss, criterion) ==
    /\ options.lr_decay_scheme = "plateau"
    /\ epoch > 0
    /\ RatLess(RatAbs(RatSub(PlateauReference(losses), train_loss)), criterion)

\* Faulty variant: the threshold is left as it is
TenthOf_Unchanged(criterion) == criterion

\* _reduce_lr_criterion * 0.1
TenthOf(criterion) == RatMul(criterion, <<1, 10>>)

\* lines 509-513 and 591-595: every sum is divided by the length of the split
Means(items, n) ==
    [imgs   |-> RatDivInt(items.imgs, n),
     attrs  |-> RatDivInt(items.attrs, n),
     recon  |-> RatDivInt(items.recon, n),
     sparse |-> RatDivInt(items.sparse, n)]

\* Faulty variant: the sums are divided by the number of trained patients
TrainLength_Trained == IF sched.losses > 0 THEN sched.losses ELSE 1

\* len(train_dataset)
TrainLength == Size(train_dataset)

EndTrain ==
    /\ pc = "train"
    /\ run.raised = ""
    /\ Size(pending) = 0
    /\ itemized' = [itemized EXCEPT !.train = Means(@, TrainLength)]
    /\ LET mean == RatDivInt(total_train_loss, TrainLength)
           fire == PlateauFires(tr_epoch, train_val_losses, mean,
                                reduce_lr_criterion)
           unint == PlateauFires(tr_epoch, train_val_losses, mean, lineage.crit)
       IN  /\ fire => model.reduce_lr < MaxDecays
           /\ total_train_loss' = mean
           /\ model' = IF fire THEN reduce_lr(model) ELSE model
           /\ current_lr' = IF fire THEN RatMul(current_lr, options.lr_decay)
                                    ELSE current_lr
           /\ reduce_lr_criterion' = IF fire THEN TenthOf(reduce_lr_criterion)
                                             ELSE reduce_lr_criterion
           /\ lineage' = IF unint
                         THEN [lineage EXCEPT
                                 !.lr = RatMul(@, options.lr_decay),
                                 !.crit = TenthOf(@)]
                         ELSE lineage
    /\ pc' = "val"
    /\ batch_idx' = 0
    /\ run' = [run EXCEPT !.trained = @ + 1]
    /\ UNCHANGED <<config, evaluation, disk, resuming, iter_mark, tr_epoch,
                   train_val_losses, accumulated_examples, pending,
                   total_val_loss, total_test_loss, restarts, sched>>

\* ------------------------------------------------------------------------
\* One iteration of the validation loop, lines 544-588
\* Faulty variant: validation never evaluates in autoencoder-only mode
ValAeOnly_Never(epoch) == FALSE

\* lines 550-553
ValAeOnly(epoch) ==
    IF epoch >= options.autoencoder_only_epochs THEN FALSE ELSE TRUE

ValPatient ==
    /\ pc = "val"
    /\ run.raised = ""
    /\ batch_idx < val_dataset
    /\ \E label \in outputs.labels, loss_total \in outputs.val,
          img_score \in outputs.scores, attr_score \in outputs.scores,
          item \in outputs.item :
        LET ae_only == ValAeOnly(tr_epoch)
            dp == [label |-> label]
            rd == [agg_img_score |-> img_score, attr_score |-> attr_score]
            bundle == loss_pred_dict'
            o  == Outcome(options.system_mode, bundle, FALSE, FALSE)
        IN  /\ data_point' = dp
            /\ result_dict' = rd
            /\ closure_args' = [test |-> TRUE, ae_only |-> ae_only]
            /\ loss_pred_dict' =
                   IF Raises(options.system_mode) THEN loss_pred_dict
                   ELSE closure(options.system_mode, dp, rd, TRUE, ae_only)
            /\ total_val_loss' = IF o = ""
                                 THEN RatAdd(total_val_loss, loss_total)
                                 ELSE total_val_loss
            /\ itemized' = IF o = ""
                           THEN [itemized EXCEPT
                                   !.val = Aggregate(@, bundle, item)]
                           ELSE itemized
            /\ run' = [run EXCEPT !.raised = o]
    /\ batch_idx' = batch_idx + 1
    /\ sched' = [sched EXCEPT !.evaluated = @ + 1,
                              !.call = [split |-> "val", test |-> TRUE,
                                        ae_only |-> ValAeOnly(tr_epoch)]]
    /\ UNCHANGED <<config, disk, pc, resuming, iter_mark, tr_epoch,
                   train_val_losses, current_lr, reduce_lr_criterion, model,
                   accumulated_examples, pending, total_train_loss,
                   total_test_loss, restarts, lineage>>

\* ------------------------------------------------------------------------
\* End of the epoch, lines 591-678
\* np.min(np.array(losses)[:, col]) of a non-empty history
MinCol(losses, col) ==
    LET vals == {losses[i][col] : i \in 1 .. Len(losses)}
    IN  CHOOSE v \in vals : \A w \in vals : ~RatLess(w, v)

\* train_val_losses[:-1]
AllButLast(losses) == SubSeq(losses, 1, Len(losses) - 1)

\* Faulty variant: the minimum is taken over the whole history, current epoch included
BestDue_WholeHistory(epoch, val_loss, losses) ==
    \/ epoch = 1
    \/ epoch > 1 /\ RatLess(val_loss, MinCol(losses, 2))

BestDue(epoch, val_loss, losses) ==
    \/ epoch = 1
    \/ epoch > 1 /\ RatLess(val_loss, MinCol(AllButLast(losses), 2))

\* Faulty variant: the period is tested on the epoch counter before its increment
PeriodicDue_BeforeIncrement(epoch) ==
    (epoch - 1) % options.checkpoint_every = 0

PeriodicDue(epoch) == epoch % options.checkpoint_every = 0

\* lines 630-656: the epoch's scalars are written to the sink, and with D in
\* the mode the first nine images of loss_pred_dict['img_inputs'] are sliced
Logging(mode, bundle, sink) ==
    IF ~options.do_logging THEN ""
    ELSE IF sink THEN "SinkError"
    ELSE IF "D" \in mode /\ bundle.img_inputs = None THEN "TypeError"
    ELSE ""

EndEpoch ==
    /\ pc = "val"
    /\ run.raised = ""
    /\ batch_idx = val_dataset
    /\ \E sink \in SinkAnswers :
        LET mean   == RatDivInt(total_val_loss, val_dataset)
            epoch  == tr_epoch + 1
            losses == Append(train_val_losses, <<total_train_loss, mean>>)
            o      == Logging(options.system_mode, loss_pred_dict, sink)
            best   == o = "" /\ BestDue(epoch, mean, losses)
            latest == o = "" /\ PeriodicDue(epoch)
            ss     == SystemState(epoch, iter_mark, losses)
            d1     == IF best THEN WriteBest(disk, ss, model) ELSE disk
            d2     == IF latest THEN WriteLatest(d1, ss, model) ELSE d1
        IN  /\ total_val_loss' = mean
            /\ itemized' = [itemized EXCEPT !.val = Means(@, val_dataset)]
            /\ tr_epoch' = epoch
            /\ train_val_losses' = losses
            /\ disk' = d2
            /\ run' = [run EXCEPT
                         !.epochs = IF o = "" THEN @ + 1 ELSE @,
                         !.wrote_best = best,
                         !.wrote_latest = latest,
                         !.best_epochs = IF best THEN @ \cup {epoch} ELSE @,
                         !.raised = o]
            /\ lineage' = [lineage EXCEPT
                             !.max_completed =
                                 IF o = "" /\ epoch > @ THEN epoch ELSE @,
                             !.saved_lr = IF latest THEN lineage.lr ELSE @,
                             !.saved_crit = IF latest THEN lineage.crit ELSE @]
            /\ pc' = IF o = "" THEN "while" ELSE "val"
    /\ UNCHANGED <<config, evaluation, resuming, iter_mark, current_lr,
                   reduce_lr_criterion, model, accumulated_examples, batch_idx,
                   pending, total_train_loss, total_test_loss, restarts, sched>>

\* ------------------------------------------------------------------------
\* After the epoch loop: testing, lines 684-780
ExitLoop ==
    /\ pc = "while"
    /\ run.raised = ""
    /\ ~LoopCondition
    /\ pc' = IF options.test THEN "test" ELSE "done"
    /\ batch_idx' = 0
    /\ total_test_loss' = Zero
    /\ itemized' = [itemized EXCEPT !.test = NoItems]
    /\ UNCHANGED <<config, evaluation, disk, resuming, iter_mark, tr_epoch,
                   train_val_losses, current_lr, reduce_lr_criterion, model,
                   accumulated_examples, pending, total_train_loss,
                   total_val_loss, restarts, run, sched, lineage>>

TestPatient ==
    /\ pc = "test"
    /\ run.raised = ""
    /\ batch_idx < test_dataset
    /\ \E label \in outputs.labels, loss_total \in outputs.test,
          img_score \in outputs.scores, attr_score \in outputs.scores,
          item \in outputs.item :
        LET dp == [label |-> label]
            rd == [agg_img_score |-> img_score, attr_score |-> attr_score]
            bundle == loss_pred_dict'
            o  == Outcome(options.system_mode, bundle, FALSE, FALSE)
        IN  /\ data_point' = dp
            /\ result_dict' = rd
            /\ closure_args' = [test |-> TRUE, ae_only |-> FALSE]
            /\ loss_pred_dict' =
                   IF Raises(options.system_mode) THEN loss_pred_dict
                   ELSE closure(options.system_mode, dp, rd, TRUE, FALSE)
            /\ total_test_loss' = IF o = ""
                                  THEN RatAdd(total_test_loss, loss_total)
                                  ELSE total_test_loss
            /\ itemized' = IF o = ""
                           THEN [itemized EXCEPT
                                   !.test = Aggregate(@, bundle, item)]
                           ELSE itemized
            /\ run' = [run EXCEPT !.raised = o]
    /\ batch_idx' = batch_idx + 1
    /\ sched' = [sched EXCEPT !.call = [split |-> "test", test |-> TRUE,
                                        ae_only |-> FALSE]]
    /\ UNCHANGED <<config, disk, pc, resuming, iter_mark, tr_epoch,
                   train_val_losses, current_lr, reduce_lr_criterion, model,
                   accumulated_examples, pending, total_train_loss,
                   total_val_loss, restarts, lineage>>

EndTest ==
    /\ pc = "test"
    /\ run.raised = ""
    /\ batch_idx = test_dataset
    /\ itemized' = [itemized EXCEPT !.test = Means(@, test_dataset)]
    /\ total_test_loss' = RatDivInt(total_test_loss, test_dataset)
    /\ pc' = "done"
    /\ UNCHANGED <<config, evaluation, disk, resuming, iter_mark, tr_epoch,
                   train_val_losses, current_lr, reduce_lr_criterion, model,
                   accumulated_examples, batch_idx, pending, total_train_loss,
                   total_val_loss, restarts, run, sched, lineage>>

\* ------------------------------------------------------------------------
\* Configurations and the initial state: main() is about to start on an
\* output directory that holds no snapshot
TrainSplits ==
    {ds \in [Labels -> 0 .. MaxTrain] : Size(ds) >= 1 /\ Size(ds) <= MaxTrain}

OnePatient == [l \in Labels |-> IF l = HEALTHY_TARGET THEN 1 ELSE 0]

BaseOptions ==
    [subj_batch_size |-> 1, checkpoint_every |-> 1, neg_train_until |-> 0,
     autoencoder_only_epochs |-> 0, n_iters |-> 1, lr_decay_scheme |-> "step",
     lr_decay_steps |-> {2}, lr |-> <<1, 1000>>, lr_decay |-> <<1, 10>>,
     skip_train |-> FALSE, test |-> FALSE, system_mode |-> {"I", "D"},
     loss |-> "bce", do_logging |-> FALSE]

\* Scheduling: every split, batch size and curriculum; one loss value
SchedulerScenarios ==
    {[options |-> [BaseOptions EXCEPT !.subj_batch_size = b,
                                      !.neg_train_until = n,
                                      !.autoencoder_only_epochs = a,
                                      !.n_iters = i,
                                      !.lr_decay_steps = {2, 3},
                                      !.skip_train = s,
                                      !.test = t],
      outputs |-> [train |-> {<<1, 10>>}, val |-> {<<1, 2>>},
                   test |-> {<<1, 2>>}, interruptions |-> 1],
      train_dataset |-> ds, val_dataset |-> v, test_dataset |-> 1] :
        b \in 1 .. MaxBatch, n \in 0 .. 1, a \in 0 .. 1, i \in 1 .. MaxIters,
        s \in BOOLEAN, t \in BOOLEAN, ds \in TrainSplits, v \in 1 .. 2}

\* Checkpoints: one patient per split; every validation loss trajectory
CheckpointScenarios ==
    {[options |-> [BaseOptions EXCEPT !.checkpoint_every = c, !.n_iters = i],
      outputs |-> [train |-> {<<1, 10>>},
                   val |-> {<<9, 10>>, <<1, 2>>, <<3, 5>>, <<3, 10>>},
                   test |-> {<<1, 2>>}, interruptions |-> 1],
      train_dataset |-> OnePatient, val_dataset |-> 1, test_dataset |-> 1] :
        c \in 1 .. MaxEvery, i \in 1 .. MaxIters}

\* Learning rate: one patient per split; training losses 0.1 and 0.105
LearningRateScenarios ==
    {[options |-> [BaseOptions EXCEPT !.checkpoint_every = c, !.n_iters = i,
                                      !.lr_decay_scheme = d],
      outputs |-> [train |-> {<<1, 10>>, <<21, 200>>}, val |-> {<<1, 2>>},
                   test |-> {<<1, 2>>}, interruptions |-> MaxRestarts],
      train_dataset |-> OnePatient, val_dataset |-> 1, test_dataset |-> 1] :
        c \in 1 .. MaxEvery, i \in 1 .. MaxIters, d \in Schemes}

\* Plateau window: runs of LongIters epochs, longer than EPOCHS_LR_CRITERION
PlateauWindowScenarios ==
    {[options |-> [BaseOptions EXCEPT !.n_iters = LongIters,
                                      !.checkpoint_every = LongIters,
                                      !.lr_decay_scheme = "plateau"],
      outputs |-> [train |-> {<<1, 10>>, <<21, 200>>}, val |-> {<<1, 2>>},
                   test |-> {<<1, 2>>}, interruptions |-> 0],
      train_dataset |-> OnePatient, val_dataset |-> 1, test_dataset |-> 1]}

\* Plateau policy under every trajectory of training and validation losses
PlateauLossScenarios ==
    {[options |-> [BaseOptions EXCEPT !.n_iters = MaxIters,
                                      !.lr_decay_scheme = "plateau"],
      outputs |-> [train |-> {<<1, 10>>, <<21, 200>>},
                   val |-> {<<1, 2>>, <<3, 10>>},
                   test |-> {<<1, 2>>}, interruptions |-> 0],
      train_dataset |-> OnePatient, val_dataset |-> 1, test_dataset |-> 1]}

\* Modes, loss families and logging: one healthy training patient, healthy
\* and sick validation and test patients, a sink that works or may fail
LoggingScenarios ==
    {[options |-> [BaseOptions EXCEPT !.system_mode = m, !.loss = l,
                                      !.do_logging = g # "off",
                                      !.autoencoder_only_epochs = a,
                                      !.n_iters = 2, !.test = TRUE],
      outputs |-> [labels |-> Labels, sink_fails |-> g = "failing"],
      train_dataset |-> OnePatient, val_dataset |-> 1, test_dataset |-> 1] :
        m \in SUBSET Modes, l \in {"bce", "nll", "mse"},
        g \in {"off", "on", "failing"}, a \in 0 .. 1}

\* Epoch means: two and three patients, two values of the training loss
MeanScenarios ==
    {[options |-> [BaseOptions EXCEPT !.neg_train_until = n, !.n_iters = 2,
                                      !.system_mode = m],
      outputs |-> [train |-> {<<1, 10>>, <<21, 200>>}],
      train_dataset |-> ds, val_dataset |-> v, test_dataset |-> 1] :
        n \in 0 .. 1, m \in {{"I", "D"}, {"A"}},
        ds \in {d \in TrainSplits : Size(d) >= 2}, v \in 1 .. 2}

\* What a scenario does not say about the patients and the sink: healthy
\* validation and test patients, scores 0, itemized losses 0.05, a sink
\* that works
DefaultOutputs ==
    [train |-> {<<1, 10>>}, val |-> {<<1, 2>>}, test |-> {<<1, 2>>},
     interruptions |-> 0, labels |-> {HEALTHY_TARGET}, scores |-> {0},
     item |-> {<<1, 20>>}, sink_fails |-> FALSE]

Answer(o, f) == IF f \in DOMAIN o THEN o[f] ELSE DefaultOutputs[f]

Outputs(o) ==
    [train |-> Answer(o, "train"), val |-> Answer(o, "val"),
     test |-> Answer(o, "test"),
     interruptions |-> Answer(o, "interruptions"),
     labels |-> Answer(o, "labels"), scores |-> Answer(o, "scores"),
     item |-> Answer(o, "item"), sink_fails |-> Answer(o, "sink_fails")]

Scenarios ==
    SchedulerScenarios \cup CheckpointScenarios \cup LearningRateScenarios
        \cup PlateauWindowScenarios \cup PlateauLossScenarios
        \cup LoggingScenarios \cup MeanScenarios

\* main() is about to start on an output directory without snapshot
AboutToStart ==
    /\ disk \in [dir : BOOLEAN, system_state : {NoFile}, weights : {NoWeights},
                 best_system_state : {NoFile}, best_weights : {NoWeights}]
    /\ pc = "start"
    /\ resuming = FALSE
    /\ iter_mark = 0
    /\ tr_epoch = 0
    /\ train_val_losses = <<>>
    /\ current_lr = options.lr
    /\ reduce_lr_criterion = REDUCE_LR_CRITERION
    /\ model = NewModel
    /\ accumulated_examples = 0
    /\ batch_idx = 0
    /\ pending = [l \in Labels |-> 0]
    /\ total_train_loss = Zero
    /\ total_val_loss = Zero
    /\ total_test_loss = Zero
    /\ itemized = NoItemized
    /\ restarts = 0
    /\ run = NewRun
    /\ sched = NewSched
    /\ lineage = [max_completed |-> 0, lr |-> options.lr,
                  crit |-> REDUCE_LR_CRITERION, saved_lr |-> options.lr,
                  saved_crit |-> REDUCE_LR_CRITERION]

Init ==
    /\ \E sc \in Scenarios :
        /\ options = sc.options
        /\ outputs = Outputs(sc.outputs)
        /\ train_dataset = sc.train_dataset
        /\ val_dataset = sc.val_dataset
        /\ test_dataset = sc.test_dataset
    /\ AboutToStart
    /\ NotEvaluated

Next ==
    \/ Startup
    \/ Kill
    \/ EnterEpoch
    \/ TrainPatient
    \/ EndTrain
    \/ ValPatient
    \/ EndEpoch
    \/ ExitLoop
    \/ TestPatient
    \/ EndTest

Spec == Init /\ [][Next]_vars

\* ------------------------------------------------------------------------
\* Termination of main(): the statements of main() run one after the other
\* in a single thread, so a statement that can run does run; an interruption
\* of the process is the environment's choice and has no fairness
\* Budgets, curriculum lengths and small splits, a split of sick patients
\* only included; one interruption, so that resumed starts occur
TerminationScenarios ==
    {[options |-> [BaseOptions EXCEPT !.n_iters = i, !.neg_train_until = n,
                                      !.checkpoint_every = c,
                                      !.do_logging = TRUE, !.test = TRUE],
      outputs |-> [interruptions |-> 1],
      train_dataset |-> ds, val_dataset |-> 1, test_dataset |-> 1] :
        i \in 1 .. MaxIters, n \in 0 .. 2, c \in 1 .. MaxEvery,
        ds \in {d \in TrainSplits : Size(d) <= 2}}

TerminationInit ==
    /\ \E sc \in TerminationScenarios :
        /\ options = sc.options
        /\ outputs = Outputs(sc.outputs)
        /\ train_dataset = sc.train_dataset
        /\ val_dataset = sc.val_dataset
        /\ test_dataset = sc.test_dataset
    /\ AboutToStart
    /\ NotEvaluated

\* The statements of main(), without the interruption
Running ==
    \/ Startup
    \/ EnterEpoch
    \/ TrainPatient
    \/ EndTrain
    \/ ValPatient
    \/ EndEpoch
    \/ ExitLoop
    \/ TestPatient
    \/ EndTest

TerminationSpec == TerminationInit /\ [][Next]_vars /\ WF_vars(Running)

\* ------------------------------------------------------------------------
\* closure() on its own: every system mode, patient, phase and pair of scores
ModeScenarios ==
    {[options |-> [BaseOptions EXCEPT !.system_mode = m],
      outputs |-> [train |-> {<<1, 10>>}, val |-> {<<1, 2>>},
                   test |-> {<<1, 2>>}, interruptions |-> 0],
      train_dataset |-> OnePatient, val_dataset |-> 1, test_dataset |-> 1] :
        m \in SUBSET Modes}

ClosureInit ==
    /\ \E sc \in ModeScenarios :
        /\ options = sc.options
        /\ outputs = Outputs(sc.outputs)
        /\ train_dataset = sc.train_dataset
        /\ val_dataset = sc.val_dataset
        /\ test_dataset = sc.test_dataset
    /\ AboutToStart
    /\ NotEvaluated

program == <<config, disk, pc, resuming, iter_mark, tr_epoch,
             train_val_losses, current_lr, reduce_lr_criterion, model,
             accumulated_examples, batch_idx, pending, total_train_loss,
             total_val_loss, total_test_loss, itemized, restarts, run, sched,
             lineage>>

\* One call loss_pred_dict = closure(data_point, test, ae_only)
Evaluate ==
    /\ \E label \in Labels, test \in BOOLEAN, ae_only \in BOOLEAN,
          img_score \in Scores, attr_score \in Scores :
        LET dp == [label |-> label]
            rd == [agg_img_score |-> img_score, attr_score |-> attr_score]
        IN  /\ data_point' = dp
            /\ result_dict' = rd
            /\ closure_args' = [test |-> test, ae_only |-> ae_only]
            /\ loss_pred_dict' =
                   closure(options.system_mode, dp, rd, test, ae_only)
    /\ UNCHANGED program

ClosureNext == Evaluate

ClosureSpec == ClosureInit /\ [][ClosureNext]_vars

\* ------------------------------------------------------------------------
\* Properties

\* The state right after the end of an epoch of the current run
EpochBoundary == pc = "while" /\ run.epochs > 0

\* The snapshot of the current counters and history
CurrentState == SystemState(tr_epoch, iter_mark, train_val_losses)

ValLoss(i) == train_val_losses[i][2]

Ceil(n, d) == (n + d - 1) \div d

\* C1: when the training loop of an epoch has ended, the running count is 0
\* and param.grad holds no accumulated gradient that was not stepped (such a
\* gradient is zeroed by the next reset_gradients without being applied).
C1_FlushedBeforeValidation ==
    pc = "val" =>
        /\ accumulated_examples = 0
        /\ (model.grad.sum_of > 0 => model.grad.stepped)

\* C2: a run resumed from the snapshot of epoch N starts at epoch N and has
\* the current learning rate and the plateau threshold of the run that was
\* never interrupted, so that the same losses give the same decay decisions.
C2_ResumeSameDecay ==
    (pc # "start" /\ resuming) =>
        /\ tr_epoch = run.restored.tr_epoch + run.epochs
        /\ current_lr = lineage.lr
        /\ reduce_lr_criterion = lineage.crit

\* C3 as stated: no epoch that was completed before an interruption is
\* executed again.
C3_NoCompletedEpochAgain ==
    pc \in {"train", "val"} => tr_epoch >= lineage.max_completed

\* C3 amended: a resumed run continues from the restored epoch counter; the
\* epochs recorded in the restored snapshot are never executed again (those
\* completed after the last periodic write are).
C3_ResumeContinues ==
    (pc # "start" /\ resuming) =>
        /\ run.restored.exists
        /\ tr_epoch = run.restored.tr_epoch + run.epochs
        /\ (pc \in {"train", "val"} => tr_epoch >= run.restored.tr_epoch)

C3_Witness ==
    /\ pc = "train"
    /\ resuming
    /\ run.restored.tr_epoch = 2
    /\ tr_epoch = 2
    /\ lineage.max_completed = 3

\* C4: a snapshot (latest or best) written by this run stores the number of
\* epochs whose training and validation loops have both completed.
C4_SnapshotAfterCompleteEpoch ==
    /\ run.wrote_latest =>
        /\ run.trained = run.epochs
        /\ disk.system_state.tr_epoch = run.restored.tr_epoch + run.epochs
    /\ run.wrote_best =>
        /\ run.trained = run.epochs
        /\ disk.best_system_state.tr_epoch = run.restored.tr_epoch + run.epochs

C4_Witness ==
    /\ resuming
    /\ run.wrote_latest
    /\ run.wrote_best
    /\ run.epochs = 2
    /\ disk.system_state.tr_epoch = 4

\* C5: the best snapshot is written at the end of an epoch exactly when the
\* epoch counter became 1 or the epoch's validation loss is strictly below
\* the validation loss of every earlier epoch of the history; validation
\* losses 0.9, 0.5, 0.6, 0.3 give best writes at epochs 1, 2 and 4 only.
C5_BestTrigger ==
    EpochBoundary =>
        /\ run.wrote_best <=>
            \/ tr_epoch = 1
            \/ \A i \in 1 .. Len(train_val_losses) - 1 :
                  RatLess(ValLoss(Len(train_val_losses)), ValLoss(i))
        /\ ( /\ ~resuming
             /\ [i \in 1 .. Len(train_val_losses) |-> ValLoss(i)]
                    = <<(<<9, 10>>), (<<1, 2>>), (<<3, 5>>), (<<3, 10>>)>> )
            => run.best_epochs = {1, 2, 4}

C5_Witness ==
    /\ EpochBoundary
    /\ ~resuming
    /\ [i \in 1 .. Len(train_val_losses) |-> ValLoss(i)]
           = <<(<<9, 10>>), (<<1, 2>>), (<<3, 5>>), (<<3, 10>>)>>
    /\ run.best_epochs = {1, 2, 4}

\* C6: an epoch in which no patient is skipped takes ceil(N / subj_batch_size)
\* optimiser steps and produces N per-patient losses.
C6_StepsPerEpoch ==
    (pc = "val" /\ sched.skipped = 0) =>
        /\ sched.steps = Ceil(Size(train_dataset), options.subj_batch_size)
        /\ sched.losses = Size(train_dataset)

C6_Witness ==
    /\ pc = "val"
    /\ sched.skipped = 0
    /\ train_dataset[HEALTHY_TARGET] = 1
    /\ train_dataset[SICK_TARGET] = 1
    /\ options.subj_batch_size = 2
    /\ sched.steps = 1
    /\ sched.losses = 2

\* C7: at an optimiser step the gradient is divided by the number of patients
\* processed since the last reset_gradients: what is stepped is the mean of
\* the accumulated per-patient gradients, also for a partial batch.
C7_MeanGradient ==
    /\ sched.last # NoStep =>
        /\ sched.last.div = sched.last.patients
        /\ sched.last.div <= options.subj_batch_size
        /\ sched.last.grads \in {0, sched.last.patients}
    /\ (pc = "train" /\ sched.steps > 0 /\ Size(pending) > 0) =>
        sched.last.div = options.subj_batch_size
    /\ (model.grad.stepped /\ model.grad.sum_of > 0) =>
        /\ model.grad.div = model.grad.sum_of
        /\ model.grad.sum_of = sched.last.patients

C7_Witness ==
    /\ model.grad.stepped
    /\ model.grad.sum_of = 2
    /\ model.grad.div = 2
    /\ options.subj_batch_size = 3
    /\ sched.steps = 1

\* C8: at the end of an epoch a best write leaves system_state.pkl and the
\* latest weights unchanged, a periodic write leaves best_model/ unchanged,
\* both store the same state when both fire, and the two writes commute.
C8_WritePaths ==
    [][(pc = "val" /\ pc' = "while") =>
        LET ss == SystemState(tr_epoch', iter_mark', train_val_losses')
        IN  /\ ~run'.wrote_latest =>
                /\ disk'.system_state = disk.system_state
                /\ disk'.weights = disk.weights
            /\ ~run'.wrote_best =>
                /\ disk'.best_system_state = disk.best_system_state
                /\ disk'.best_weights = disk.best_weights
            /\ run'.wrote_latest => disk'.system_state = ss
            /\ run'.wrote_best => disk'.best_system_state = ss
            /\ (run'.wrote_latest /\ run'.wrote_best) =>
                /\ disk'.weights = disk'.best_weights
                /\ disk' = WriteBest(WriteLatest(disk, ss, model), ss, model)
            /\ WriteBest(WriteLatest(disk, ss, model), ss, model)
                 = WriteLatest(WriteBest(disk, ss, model), ss, model)]_vars

C8_Witness ==
    /\ EpochBoundary
    /\ run.wrote_best
    /\ ~run.wrote_latest
    /\ disk.system_state.exists
    /\ disk.system_state.tr_epoch = 2
    /\ disk.best_system_state.tr_epoch = 3

\* C9: the latest snapshot is written at the end of an epoch exactly when the
\* incremented epoch counter is a multiple of checkpoint_every, whatever the
\* validation loss, and it holds the current counters and history.
C9_PeriodicWrite ==
    EpochBoundary =>
        /\ run.wrote_latest <=> tr_epoch % options.checkpoint_every = 0
        /\ run.wrote_latest => disk.system_state = CurrentState

C9_Witness ==
    /\ EpochBoundary
    /\ options.checkpoint_every = 2
    /\ run.wrote_latest
    /\ ~run.wrote_best
    /\ tr_epoch = 2

\* C10: startup resumes exactly when the output directory and system_state.pkl
\* exist, and then takes the counters and the history from the snapshot;
\* otherwise it starts with iteration 0, epoch 0 and an empty history.
C10_StartupState ==
    pc # "start" =>
        /\ resuming <=> (run.dir_existed /\ run.restored.exists)
        /\ (pc = "while" /\ run.epochs = 0) =>
            IF resuming
            THEN /\ iter_mark = run.restored.iter_mark
                 /\ tr_epoch = run.restored.tr_epoch
                 /\ train_val_losses = run.restored.train_val_losses
            ELSE /\ iter_mark = 0
                 /\ tr_epoch = 0
                 /\ train_val_losses = <<>>

C10_Witness ==
    /\ pc = "while"
    /\ run.epochs = 0
    /\ ~resuming
    /\ run.dir_existed
    /\ disk.best_system_state.exists
    /\ ~disk.system_state.exists

\* The step that ends the training loop of an epoch
EndTrainStep == pc = "train" /\ pc' = "val"

\* The step runs to its end: no exception leaves main()
Completes == run'.raised = ""

\* A step inside one run of main(), neither its startup nor its interruption
InRunStep == pc # "start" /\ pc' # "start"

RECURSIVE TrainSum(_, _, _)
TrainSum(h, lo, hi) ==
    IF lo > hi THEN Zero ELSE RatAdd(h[lo][1], TrainSum(h, lo + 1, hi))

\* Mean of the training losses of the prior epochs: of all of them while
\* fewer than EPOCHS_LR_CRITERION are known, of the most recent
\* EPOCHS_LR_CRITERION afterwards
ReferenceMean(h) ==
    LET n  == Len(h)
        lo == IF n < EPOCHS_LR_CRITERION THEN 1 ELSE n - EPOCHS_LR_CRITERION + 1
    IN  RatDivInt(TrainSum(h, lo, n), n - lo + 1)

\* The epoch's mean training loss is closer to the reference mean than the
\* current threshold
BelowThreshold ==
    /\ EndTrainStep
    /\ Len(train_val_losses) > 0
    /\ RatLess(RatAbs(RatSub(ReferenceMean(train_val_losses),
                             total_train_loss')),
               reduce_lr_criterion)

\* C11: under the plateau policy, at an epoch whose mean training loss is
\* closer to the reference mean than the current threshold, reduce_lr is
\* invoked once, current_lr is multiplied by lr_decay once and the threshold
\* is multiplied by 0.1, all in one step; at any other step of the run none
\* of the three changes.
C11_PlateauDecay ==
    [][(options.lr_decay_scheme = "plateau" /\ InRunStep) =>
        IF BelowThreshold
        THEN /\ model'.reduce_lr = model.reduce_lr + 1
             /\ current_lr' = RatMul(current_lr, options.lr_decay)
             /\ reduce_lr_criterion' = RatMul(reduce_lr_criterion, <<1, 10>>)
        ELSE /\ model'.reduce_lr = model.reduce_lr
             /\ current_lr' = current_lr
             /\ reduce_lr_criterion' = reduce_lr_criterion]_vars

C11_Witness ==
    /\ pc = "val"
    /\ options.lr_decay_scheme = "plateau"
    /\ Len(train_val_losses) = 1
    /\ model.reduce_lr = 1
    /\ current_lr = RatMul(options.lr, options.lr_decay)
    /\ reduce_lr_criterion = <<1, 1000>>

StartIter == IF resuming THEN run.restored.iter_mark ELSE 0

\* A patient was evaluated by this step of the training loop
TrainedStep ==
    /\ pc = "train"
    /\ pc' = "train"
    /\ sched'.losses = sched.losses + 1
    /\ sched'.skipped = sched.skipped

\* C13: iter_mark moves only by one, for a trained patient; under the step
\* policy reduce_lr is invoked and current_lr multiplied by lr_decay exactly
\* at the steps that bring iter_mark onto a milestone, so that the decays of
\* a run are the milestones passed in that run, once each; under any other
\* policy a milestone decays nothing.
C13_StepDecay ==
    [][InRunStep =>
        LET hit == /\ iter_mark' = iter_mark + 1
                   /\ iter_mark' \in options.lr_decay_steps
        IN  /\ iter_mark' # iter_mark =>
                  (iter_mark' = iter_mark + 1 /\ TrainedStep)
            /\ options.lr_decay_scheme = "step" =>
                  /\ IF hit
                     THEN /\ model'.reduce_lr = model.reduce_lr + 1
                          /\ current_lr' =
                                 RatMul(current_lr, options.lr_decay)
                     ELSE /\ model'.reduce_lr = model.reduce_lr
                          /\ current_lr' = current_lr
                  /\ model'.reduce_lr =
                        Cardinality({m \in options.lr_decay_steps :
                                        StartIter' < m /\ m <= iter_mark'})
            /\ (options.lr_decay_scheme # "step" /\ ~EndTrainStep) =>
                  /\ model'.reduce_lr = model.reduce_lr
                  /\ current_lr' = current_lr]_vars

C13_Witness ==
    /\ pc = "val"
    /\ options.lr_decay_scheme = "step"
    /\ options.lr_decay_steps = {2, 3}
    /\ tr_epoch = 0
    /\ sched.skipped = 1
    /\ iter_mark = 2
    /\ model.reduce_lr = 1
    /\ current_lr = RatMul(options.lr, options.lr_decay)

\* C14: an epoch is entered only while skip_train is off and iter_mark is
\* below n_iters; the training loop is followed by the validation loop, and
\* is left only when every patient of the training split was evaluated or
\* skipped; the validation loop is left only when the whole validation split
\* was evaluated; testing starts only when the epoch loop has ended and
\* testing is enabled, and is followed by the end of the run.
C14_SplitOrder ==
    [][/\ pc = "start" => pc' = "while"
       /\ pc = "while" => pc' \in {"while", "train", "test", "done", "start"}
       /\ (pc = "while" /\ pc' = "train") =>
             /\ ~options.skip_train
             /\ iter_mark < options.n_iters
             /\ pending' = train_dataset
       /\ (pc = "while" /\ pc' \in {"test", "done"}) =>
             /\ options.skip_train \/ iter_mark >= options.n_iters
             /\ pc' = "test" <=> options.test
       /\ pc = "train" => pc' \in {"train", "val"}
       /\ (pc = "train" /\ pc' = "val") =>
             /\ Size(pending) = 0
             /\ sched.losses + sched.skipped = Size(train_dataset)
       /\ pc = "val" => pc' \in {"val", "while"}
       /\ (pc = "val" /\ pc' = "while") => sched.evaluated = val_dataset
       /\ pc = "test" => pc' \in {"test", "done"}
       /\ (pc = "test" /\ pc' = "done") => batch_idx = test_dataset
       /\ pc = "done" => pc' = "done"]_vars

C14_Witness ==
    /\ pc = "done"
    /\ options.skip_train
    /\ options.test
    /\ sched.call.split = "test"
    /\ run.trained = 0
    /\ tr_epoch = 0

\* C15: in an epoch of the autoencoder-only window with mode D active, the
\* gradient applied by an optimiser step holds the backward pass of every
\* patient trained since the last reset.
C15_WindowBackpropagates ==
    (/\ pc \in {"train", "val"}
     /\ "D" \in options.system_mode
     /\ tr_epoch < options.autoencoder_only_epochs
     /\ sched.steps > 0) =>
        /\ sched.last.grads > 0
        /\ sched.last.grads = sched.last.patients

\* closure() has returned loss_pred_dict for data_point
Evaluated == data_point # NoPatient

GatedMode == "G" \in options.system_mode \/ "M" \in options.system_mode

\* C16: when closure() was called with ae_only, the total is the sum of the
\* scaled reconstruction and sparsity losses if mode D is set and of nothing
\* otherwise, whatever the other flags, and the image and attribute losses
\* of the active modes are returned all the same.
C16_AutoencoderOnlyTotal ==
    (Evaluated /\ closure_args.ae_only) =>
        /\ loss_pred_dict.total =
              IF "D" \in options.system_mode
              THEN {Scaled("scale_recon",
                           Tensor("result_dict", "loss_recon", "", FALSE)),
                    Scaled("scale_sparse",
                           Tensor("result_dict", "loss_sparse", "", FALSE))}
              ELSE {}
        /\ ("I" \in options.system_mode \/ GatedMode) =>
              loss_pred_dict.imgs # None
        /\ ("A" \in options.system_mode \/ GatedMode) =>
              loss_pred_dict.attrs # None

\* C17: in the training loop of an epoch below neg_train_until a sick
\* patient is passed over: closure() is not called, nothing is
\* backpropagated or stepped, and the running count, iter_mark and the
\* epoch's loss sum stay as they are; every other patient (healthy, or from
\* epoch neg_train_until on) is evaluated and counted by an iteration that
\* runs to its end.
C17_CurriculumSkip ==
    [][(pc = "train" /\ pc' = "train" /\ Completes) =>
        \A label \in Labels :
            pending'[label] = pending[label] - 1 =>
                IF label = 1 /\ tr_epoch < options.neg_train_until
                THEN /\ sched'.skipped = sched.skipped + 1
                     /\ sched'.losses = sched.losses
                     /\ sched'.call = sched.call
                     /\ model'.grad.sum_of <= model.grad.sum_of
                     /\ model'.params = model.params
                     /\ accumulated_examples' = accumulated_examples
                     /\ iter_mark' = iter_mark
                     /\ total_train_loss' = total_train_loss
                ELSE /\ sched'.skipped = sched.skipped
                     /\ sched'.losses = sched.losses + 1
                     /\ sched'.call.split = "train"
                     /\ iter_mark' = iter_mark + 1]_vars

C17_Witness ==
    /\ pc = "train"
    /\ options.neg_train_until = 1
    /\ tr_epoch = 0
    /\ sched.losses = 1
    /\ sched.skipped = 1
    /\ iter_mark = 1
    /\ accumulated_examples = 1
    /\ pending[SICK_TARGET] = 0
    /\ pending[HEALTHY_TARGET] = 1

ClassTarget == IF data_point.label = 0 THEN "healthy_target" ELSE "sick_target"

\* The parts of the returned total, by the expression that computes them
FusedLikelihood ==
    {t \in loss_pred_dict.total :
        t.fn = "-log" /\ t.input \in {"p_score", "1 - p_score"}}
MixtureLikelihood ==
    {t \in loss_pred_dict.total : t.fn = "-log" /\ t.input = "pred_prob"}
AdditiveTerms ==
    {t \in loss_pred_dict.total : t.fn \in {"loss_fn", "result_dict"}}
GateTerms ==
    {t \in loss_pred_dict.total : t.fn = "binary_cross_entropy"}

\* C19: the total returned by closure() is made of one fused likelihood when
\* G is set, of one mixture likelihood when M is set and G is not, and of
\* image, attribute and reconstruction terms only when neither is set; the
\* gate loss is part of it exactly when T is set together with G or M.
C19_OnePrimaryBranch ==
    Evaluated =>
        /\ loss_pred_dict.total =
              FusedLikelihood \cup MixtureLikelihood \cup AdditiveTerms
                  \cup GateTerms
        /\ "G" \in options.system_mode =>
              /\ Cardinality(FusedLikelihood) = 1
              /\ MixtureLikelihood = {}
              /\ AdditiveTerms = {}
        /\ ("M" \in options.system_mode /\ "G" \notin options.system_mode) =>
              /\ Cardinality(MixtureLikelihood) = 1
              /\ FusedLikelihood = {}
              /\ AdditiveTerms = {}
        /\ ~GatedMode =>
              /\ FusedLikelihood = {}
              /\ MixtureLikelihood = {}
              /\ \A t \in AdditiveTerms :
                    \/ "I" \in options.system_mode
                          /\ t.input = "agg_img_score"
                    \/ "A" \in options.system_mode /\ t.input = "attr_score"
                    \/ "D" \in options.system_mode
                          /\ t.input \in {"loss_recon", "loss_sparse"}
        /\ IF "T" \in options.system_mode /\ GatedMode
           THEN Cardinality(GateTerms) = 1
           ELSE GateTerms = {}

C19_Witness ==
    /\ Evaluated
    /\ options.system_mode = Modes
    /\ data_point.label = 1
    /\ Cardinality(loss_pred_dict.total) = 2
    /\ FusedLikelihood # {}
    /\ GateTerms # {}

\* C20: in the dictionary closure() returns, imgs is None exactly without I,
\* G and M, attrs exactly without A, G and M, recon and sparse exactly
\* without D or with G or M, and the gate target is missing exactly
\* without T or without G and M; a component that is there is the loss of
\* this call: of the class of this patient, on the score of its mode.  The
\* total is the integer 0 exactly when nothing was added.
C20_BundleFields ==
    Evaluated =>
        /\ loss_pred_dict.imgs = None
              <=> ~("I" \in options.system_mode \/ GatedMode)
        /\ loss_pred_dict.imgs # None =>
              /\ loss_pred_dict.imgs.fn = "loss_fn"
              /\ loss_pred_dict.imgs.input = "agg_img_score"
              /\ loss_pred_dict.imgs.target = ClassTarget
        /\ loss_pred_dict.attrs = None
              <=> ~("A" \in options.system_mode \/ GatedMode)
        /\ loss_pred_dict.attrs # None =>
              /\ loss_pred_dict.attrs.fn = "loss_fn"
              /\ loss_pred_dict.attrs.input = "attr_score"
              /\ loss_pred_dict.attrs.target = ClassTarget
        /\ loss_pred_dict.recon = None
              <=> ("D" \notin options.system_mode \/ GatedMode)
        /\ loss_pred_dict.recon # None =>
              /\ loss_pred_dict.recon.input = "loss_recon"
              /\ loss_pred_dict.recon.scales = {"scale_recon"}
        /\ loss_pred_dict.sparse = None
              <=> ("D" \notin options.system_mode \/ GatedMode)
        /\ loss_pred_dict.sparse # None =>
              /\ loss_pred_dict.sparse.input = "loss_sparse"
              /\ loss_pred_dict.sparse.scales = {"scale_sparse"}
        /\ loss_pred_dict.gate_target = NoKey
              <=> ~("T" \in options.system_mode /\ GatedMode)
        /\ loss_pred_dict.gate_target # NoKey =>
              loss_pred_dict.gate_target \in {"healthy_target", "sick_target"}
        /\ loss_pred_dict.total = {}
              <=> /\ ~GatedMode
                  /\ "D" \notin options.system_mode
                  /\ \/ closure_args.ae_only
                     \/ options.system_mode \cap {"I", "A"} = {}

C20_Witness ==
    /\ Evaluated
    /\ options.system_mode = {"A", "T"}
    /\ data_point.label = 1
    /\ loss_pred_dict.imgs = None
    /\ loss_pred_dict.attrs # None
    /\ loss_pred_dict.recon = None
    /\ loss_pred_dict.gate_target = NoKey
    /\ loss_pred_dict.total # {}

\* C21: in every system mode, with logging on or off, the per-patient sums,
\* the epoch summary and the logging step pass over the optional fields of
\* the dictionary that are None: no run ends with the TypeError of a None
\* that was sliced.
C21_AbsentFieldsSkipped == run.raised # "TypeError"

\* C22: in an additive mode with I, the image loss of a healthy patient is
\* computed in training on the per-image scores with the healthy target
\* broadcast to them, and in evaluation on the aggregated score with the
\* same target; the image loss of a sick patient is computed on the
\* aggregated score with the sick target in both phases.
C22_ImageLossInputs ==
    (Evaluated /\ ~GatedMode /\ "I" \in options.system_mode) =>
        LET training == ~closure_args.test
            healthy  == data_point.label = 0
        IN  /\ loss_pred_dict.imgs.fn = "loss_fn"
            /\ loss_pred_dict.imgs.target = ClassTarget
            /\ loss_pred_dict.imgs.input =
                   IF healthy /\ training THEN "img_scores"
                                          ELSE "agg_img_score"
            /\ loss_pred_dict.imgs.expand = (healthy /\ training)

\* The value held by a target tensor
TargetValue(name) == IF name = "sick_target" THEN 1 ELSE 0

\* C23: with T in a gated mode (G or M) the gate label is 1, the image
\* classifier, exactly when the image score is strictly smaller than the
\* attribute score for a healthy patient or strictly larger for a sick one,
\* and 0, the attribute classifier, otherwise, ties included; the binary
\* cross-entropy of the gate weight against this label is one term of the
\* total.  Without G and M, T changes nothing in what closure() returns, and
\* without T no gate term is added.
C23_GateTarget ==
    Evaluated =>
        IF GatedMode /\ "T" \in options.system_mode
        THEN LET image ==
                    IF data_point.label = 0
                    THEN result_dict.agg_img_score < result_dict.attr_score
                    ELSE result_dict.agg_img_score > result_dict.attr_score
             IN  /\ loss_pred_dict.gate_target \in
                        {"healthy_target", "sick_target"}
                 /\ TargetValue(loss_pred_dict.gate_target) =
                        (IF image THEN 1 ELSE 0)
                 /\ GateTerms =
                        {Tensor("binary_cross_entropy", "w_img_score",
                                loss_pred_dict.gate_target, FALSE)}
        ELSE /\ GateTerms = {}
             /\ loss_pred_dict.gate_target = NoKey
             /\ ~GatedMode =>
                    loss_pred_dict =
                        closure(options.system_mode \ {"T"}, data_point,
                                result_dict, closure_args.test,
                                closure_args.ae_only)

\* Equal scores of a sick patient under GT: the attribute classifier is the label
C23_Witness ==
    /\ options.system_mode = {"G", "T"}
    /\ data_point.label = 1
    /\ result_dict.agg_img_score = 1
    /\ result_dict.attr_score = 1
    /\ loss_pred_dict.gate_target = "healthy_target"
    /\ GateTerms # {}

RECURSIVE SumOf(_, _)
\* Sum of one of the five losses over the patients trained in the epoch
SumOf(patients, loss) ==
    IF patients = <<>> THEN Zero
    ELSE RatAdd(Head(patients)[loss], SumOf(Tail(patients), loss))

\* C24: the training loss of an epoch, and each of its itemized losses, is
\* the sum of the losses of the patients trained in the epoch divided by the
\* length of the whole training split, skipped patients included; when no
\* patient was skipped this is the mean over the trained patients.  The
\* validation and the test sums are divided by the lengths of their splits.
C24_EpochMeans ==
    [][/\ EndTrainStep =>
             /\ Len(sched.summed) + sched.skipped = Size(train_dataset)
             /\ total_train_loss' =
                    RatDivInt(SumOf(sched.summed, "total"),
                              Size(train_dataset))
             /\ \A loss \in {"imgs", "attrs", "recon", "sparse"} :
                    itemized'.train[loss] =
                        RatDivInt(SumOf(sched.summed, loss),
                                  Size(train_dataset))
             /\ sched.skipped = 0 =>
                    total_train_loss' =
                        RatDivInt(SumOf(sched.summed, "total"),
                                  Len(sched.summed))
       /\ (pc = "val" /\ pc' = "while") =>
             /\ sched.evaluated = val_dataset
             /\ total_val_loss' = RatDivInt(total_val_loss, val_dataset)
             /\ itemized'.val = Means(itemized.val, val_dataset)
       /\ (pc = "test" /\ pc' = "done") =>
             /\ batch_idx = test_dataset
             /\ total_test_loss' = RatDivInt(total_test_loss, test_dataset)
             /\ itemized'.test = Means(itemized.test, test_dataset)]_vars

\* Two trained patients with losses 0.1 and 0.105: the epoch's loss is 0.1025
C24_Witness ==
    /\ pc = "val"
    /\ Size(train_dataset) = 2
    /\ Len(sched.summed) = 2
    /\ sched.summed[1].total # sched.summed[2].total
    /\ total_train_loss = <<41, 400>>
    /\ itemized.train.recon = <<1, 20>>

\* C25: a write to the logging sink that fails never stops the training:
\* no run ends with the exception of the sink.
C25_SinkFailureContained == run.raised # "SinkError"

\* A configuration the program does not know: a loss family other than bce
\* and nll, a system mode without any of I, A, D, G, M, or with G and M both
Unrecognised ==
    \/ ~LossKnown
    \/ options.system_mode \cap {"I", "A", "D", "G", "M"} = {}
    \/ {"G", "M"} \subseteq options.system_mode

\* C26: with an unrecognised system mode or loss family the run stops at
\* startup: no epoch is entered, no patient is evaluated, no optimiser step
\* is taken and no snapshot is written.
C26_RejectedAtStartup ==
    Unrecognised =>
        /\ pc \notin {"train", "val", "test"}
        /\ sched.call = NoCall
        /\ sched.steps = 0
        /\ ~disk.system_state.exists
        /\ ~disk.best_system_state.exists

\* The validation loss of the epoch a snapshot was written at
StoredValLoss(system_state) ==
    system_state.train_val_losses[Len(system_state.train_val_losses)][2]

\* C27: through epochs, interruptions between epochs and resumes from the
\* latest snapshot, the snapshot at the best location is never replaced by
\* one with a higher validation loss.
C27_BestNeverWorse ==
    [][(/\ resuming
        /\ disk.best_system_state.exists
        /\ disk'.best_system_state # disk.best_system_state) =>
            ~RatLess(StoredValLoss(disk.best_system_state),
                     StoredValLoss(disk'.best_system_state))]_vars

\* A snapshot holds one history entry per epoch of its counter
OneEntryPerEpoch(system_state) ==
    system_state.exists =>
        Len(system_state.train_val_losses) = system_state.tr_epoch

\* C28: between two epochs the history holds one (train loss, validation
\* loss) entry per completed epoch, in a fresh run and in a resumed one;
\* every snapshot on disk holds as many entries as its epoch counter says;
\* the epoch of the latest snapshot is a positive multiple of
\* checkpoint_every.
C28_HistoryMatchesEpochs ==
    /\ pc = "while" => Len(train_val_losses) = tr_epoch
    /\ OneEntryPerEpoch(disk.system_state)
    /\ OneEntryPerEpoch(disk.best_system_state)
    /\ disk.system_state.exists =>
          /\ disk.system_state.tr_epoch > 0
          /\ disk.system_state.tr_epoch % options.checkpoint_every = 0

\* A resumed run at the end of its epoch 3, the snapshot of epoch 2 on disk
C28_Witness ==
    /\ pc = "while"
    /\ resuming
    /\ run.epochs = 1
    /\ tr_epoch = 3
    /\ Len(train_val_losses) = 3
    /\ options.checkpoint_every = 2
    /\ disk.system_state.tr_epoch = 2
    /\ disk.best_system_state.exists

\* C29: inside a run iter_mark never decreases; it grows by exactly one in
\* an iteration of the training loop that evaluates its patient and runs to
\* its end, and stays as it is in every other step (a skipped patient, the
\* validation and test loops, the ends of the loops).  When the epoch loop
\* is left with skip_train off, iter_mark is at least n_iters, and exceeds
\* it by less than the length of the training split unless the restored
\* counter was at n_iters or beyond.
C29_IterMark ==
    [][InRunStep =>
        /\ iter_mark' =
              IF /\ pc = "train"
                 /\ pc' = "train"
                 /\ sched'.skipped = sched.skipped
                 /\ Completes
              THEN iter_mark + 1
              ELSE iter_mark
        /\ (pc = "while" /\ pc' \in {"test", "done"}
                /\ ~options.skip_train) =>
              /\ iter_mark >= options.n_iters
              /\ StartIter < options.n_iters =>
                    iter_mark - options.n_iters < Size(train_dataset)]_vars

\* The loop is left two patients past n_iters, with a split of three patients
C29_Witness ==
    /\ pc = "done"
    /\ ~options.skip_train
    /\ Size(train_dataset) = 3
    /\ options.neg_train_until = 0
    /\ options.n_iters = 4
    /\ iter_mark = 6

\* C30: a logical mini-batch never holds more than subj_batch_size
\* patients.  The running count is 0 when the training loop of an epoch
\* starts; it is between 0 and subj_batch_size - 1 whenever the loop is
\* about to fetch a patient; every optimiser step sets it back to 0; and
\* reset_gradients is invoked only while it is 0, so that a count above 0 is
\* the number of patients accumulated since the gradients were last reset.
C30_BatchCount ==
    [][/\ (pc = "while" /\ pc' = "train") => accumulated_examples' = 0
       /\ pc' = "train" =>
             /\ accumulated_examples' >= 0
             /\ accumulated_examples' <= options.subj_batch_size - 1
             /\ accumulated_examples' > 0 =>
                    sched'.since_reset = accumulated_examples'
       /\ (InRunStep /\ sched'.steps = sched.steps + 1) =>
             accumulated_examples' = 0]_vars

\* Second epoch, after the step that closed the first: two patients of a
\* batch of three are accumulated, the third is to be fetched
C30_Witness ==
    /\ pc = "train"
    /\ tr_epoch = 1
    /\ model.params = 1
    /\ options.subj_batch_size = 3
    /\ accumulated_examples = 2
    /\ sched.since_reset = 2
    /\ Size(pending) = 1

\* C31: with a finite n_iters and neg_train_until, a non-empty training
\* split (one of sick patients only included) and a fresh or resumed start,
\* a run of main() that raises no exception leaves the epoch loop and
\* reaches DONE: every run eventually has pc = "done"
C31_Terminates == <>(pc = "done")

C31_Witness ==
    /\ pc = "done"
    /\ train_dataset[HEALTHY_TARGET] = 0
    /\ options.neg_train_until = 2
    /\ options.n_iters = MaxIters
    /\ resuming
    /\ iter_mark >= options.n_iters

====
